---- MODULE Spec2Model ----
(***************************************************************************)
(* figma-mcp command relay: the Relay Hub (socket.ts), the Command Issuer  *)
(* (mcp_server/server.ts) and the Command Executor (figma_plugin/code.js). *)
(*                                                                         *)
(* JSON values are encoded as follows.  An object is a record whose        *)
(* fields are the keys that are present; a key whose value is undefined   *)
(* is absent (JSON.stringify drops it).  Scalar fields (type, channel,    *)
(* sender, id, command, result, error) are strings; the `message` field   *)
(* is always a record: an object, or [str |-> s] for a string payload.    *)
(* A frame that JSON.parse rejects is the record [malformed |-> TRUE].    *)
(*                                                                         *)
(* Endpoints are connection identities.  ExecEp is the connection of the  *)
(* plugin UI; 1..MaxSocks are the sockets the Issuer creates, in order.   *)
(* What the Hub sends during one handler is kept per recipient (hubOut):  *)
(* the relative order of sends to different sockets is not observable.    *)
(***************************************************************************)
EXTENDS Integers, Sequences, FiniteSets, TLC

\* ---------------------------------------------------------------- bounds
MaxSocks == 2
MaxInvokes == 2
MaxHubEvents == 3
MaxFaults == 1
MaxFeeds == 3
MaxInjects == 1

\* ------------------------------------------------------------- constants
CHANNEL == "figma-mcp"
OtherChannel == "c1"
Undefined == "<undefined>"
NoEp == -1
ExecEp == 0
Socks == 1..MaxSocks
Endpoints == {ExecEp} \cup Socks
ChannelNames == {CHANNEL, OtherChannel}
NoRaw == [none |-> TRUE]
Invokes == 1..MaxInvokes
\* the tools of server.ts call sendCommand with names of the handler table
\* only; the Issuer treats them alike, and the one taken has a handler that
\* can throw, suspend and fail after it resumed
Commands == {"set_text_content"}
AsyncCommands == {"create_text", "set_text_content", "export_node_as_image"}
HandlerTable ==
  {"get_document_info", "get_selection", "get_node_info", "get_nodes_info", "get_styles",
   "get_local_components", "create_rectangle", "create_text", "create_frame",
   "set_fill_color", "move_node", "resize_node", "delete_node", "set_text_content",
   "export_node_as_image"}
\* handlers is an object literal: handlers[command] also finds the members
\* of Object.prototype, the functions and the accessor __proto__, whose
\* value is Object.prototype itself
InheritedFunctions ==
  {"constructor", "toString", "toLocaleString", "valueOf", "hasOwnProperty",
   "isPrototypeOf", "propertyIsEnumerable", "__defineGetter__", "__defineSetter__",
   "__lookupGetter__", "__lookupSetter__"}
InheritedObjects == {"__proto__"}
FeedCommands ==
  {"set_text_content", "delete_node", "bogus", "constructor", "toString", "valueOf",
   "__proto__"}
Params == {"n1"}
\* handlers that look their node up and throw `Node not found: ${nodeId}`
NodeCommands ==
  {"get_node_info", "set_fill_color", "move_node", "resize_node", "delete_node",
   "export_node_as_image"}
JoinId == "j"

VARIABLES
  channels,    \* Hub: Map channel name -> Set of member endpoints
  hubState,    \* Hub: readyState of each server-side socket
  hubOut,      \* what the last Hub handler sent, per recipient
  lastOp,      \* the last Hub handler that ran, its input, the registry and socket states before it
  hubEvents,   \* number of frames the Hub has handled
  errNoticed,  \* endpoints the Hub has answered with an error notice
  toHub,       \* frames in flight, endpoint -> Hub, per connection
  inbox,       \* frames in flight, Hub -> endpoint, per connection
  down,        \* connections whose transport has failed
  ws,          \* Issuer: the module-level socket reference (NoEp is null)
  rs,          \* Issuer: readyState of each socket it created
  connOf,      \* Issuer: the invoke whose connect() promise a socket settles
  pending,     \* Issuer: the keys of the pending Map
  timers,      \* Issuer: invokes whose timeout timer is armed
  calls,       \* Issuer: number of sendCommand calls made
  nextId,      \* Issuer: number of correlation ids generated
  pc,          \* invoke: "idle", "awaitConnect", "connected", "sent" or "failed"
  req,         \* invoke: the request message {id, command, params}
  outcome,     \* invoke: how the promise returned by sendCommand settled
  settles,     \* invoke: number of times its resolve/reject pair was invoked
  removes,     \* invoke: number of times its entry was removed from pending
  settledBy,   \* invoke: the message whose handler lookup settled it
  sentOn,      \* invoke: where and in which connection state its request was sent
  joinSent,    \* sockets on which the Issuer has sent a join envelope
  dropped,     \* messages the Issuer received and found no handler for
  ignored,     \* frames the Issuer's message handler discarded without a lookup
  crashed,     \* Issuer: an event listener threw (uncaught exception)
  xJoined,     \* Executor UI: join envelope sent
  running,     \* Executor: requests whose asynchronous handler is suspended
  emitted,     \* Executor: the replies it has posted
  handled,     \* Executor: the command envelopes onmessage accepted, in arrival order
  ran,         \* Executor: the requests for which handler(params) was called
  posted,      \* Executor: the replies it has posted, in posting order
  due,         \* Executor: the reply onmessage posts when its await resumes, or NoRaw
  got          \* the relayed messages each endpoint's listener was handed, in order

hubVars == <<channels, hubState, hubOut, lastOp, hubEvents, errNoticed>>
wireVars == <<toHub, inbox, down>>
issuerVars == <<ws, rs, connOf, pending, timers, calls, nextId, pc, req, outcome,
                settles, removes, settledBy, sentOn, joinSent, dropped, ignored,
                crashed>>
execVars == <<xJoined, running, emitted, handled, ran, posted, due>>
vars == <<hubVars, wireVars, issuerVars, execVars, got>>

\* ------------------------------------------------------------ JSON helpers
\* obj.f in JavaScript: undefined when the key is absent.
Get(obj, f) == IF f \in DOMAIN obj THEN obj[f] ELSE Undefined

\* JavaScript truthiness of a string-or-undefined value.
Truthy(v) == v # Undefined /\ v # ""

\* JSON.parse throws on a malformed frame.
ParseThrows(raw) == "malformed" \in DOMAIN raw

\* --------------------------------------------------------- Hub: sending
NoOut == [e \in Endpoints |-> <<>>]

SendTo(e, env) == [x \in Endpoints |-> IF x = e THEN <<env>> ELSE <<>>]

Cat(a, b) == [e \in Endpoints |-> a[e] \o b[e]]

Rep(k, env) == [i \in 1..k |-> env]

ConnectedNotice == [type |-> "system", message |-> [str |-> "Connected. Join a channel to start."]]
ChannelRequiredNotice == [type |-> "error", message |-> [str |-> "channel is required"]]
JoinFirstNotice == [type |-> "error", message |-> [str |-> "Join a channel first"]]
LeftNotice == [type |-> "system", message |-> [str |-> "A user has left the channel"]]
JoinedNotice(ch) == [type |-> "system", message |-> [str |-> "Joined channel: " \o ch], channel |-> ch]
NewUserNotice(ch) == [type |-> "system", message |-> [str |-> "A new user joined"], channel |-> ch]

\* { id: data.id, result: `Connected to channel: ${ch}` } after JSON.stringify
JoinAck(data, ch) ==
  [type |-> "system",
   message |-> IF "id" \in DOMAIN data
               THEN [id |-> data.id, result |-> "Connected to channel: " \o ch]
               ELSE [result |-> "Connected to channel: " \o ch],
   channel |-> ch]

\* the relay envelope; `message` is dropped by JSON.stringify when undefined
BroadcastEnv(data, sender, ch) ==
  IF "message" \in DOMAIN data
  THEN [type |-> "broadcast", message |-> data.message, sender |-> sender, channel |-> ch]
  ELSE [type |-> "broadcast", sender |-> sender, channel |-> ch]

\* a broadcast that ignores its exclude argument
broadcastNoExclude(chs, st, channelName, data, exclude) ==
  IF channelName \notin DOMAIN chs THEN NoOut
  ELSE [e \in Endpoints |->
          IF e \in chs[channelName] /\ st[e] = "open" THEN <<data>> ELSE <<>>]

\* broadcast(channelName, data, exclude)
broadcast(chs, st, channelName, data, exclude) ==
  IF channelName \notin DOMAIN chs THEN NoOut
  ELSE [e \in Endpoints |->
          IF e \in chs[channelName] /\ e # exclude /\ st[e] = "open"
          THEN <<data>> ELSE <<>>]

\* removeFromChannels that forgets clients.delete(ws)
removeFromChannelsRegKeeps(chs, sock) == chs

\* removeFromChannels(ws): the registry afterwards
removeFromChannelsReg(chs, sock) == [c \in DOMAIN chs |-> chs[c] \ {sock}]

\* removeFromChannels(ws): one left-notice per channel ws was in, to each
\* remaining open member of that channel
removeFromChannelsOut(chs, st, sock) ==
  [e \in Endpoints |->
     Rep(Cardinality({c \in DOMAIN chs :
                        sock \in chs[c] /\ e \in chs[c] \ {sock} /\ st[e] = "open"}),
         LeftNotice)]

\* a join that moves the socket: it leaves every other channel
AddMemberLeavesOthers(chs, ch, sock) ==
  [c \in DOMAIN chs \cup {ch} |->
     IF c = ch THEN (IF ch \in DOMAIN chs THEN chs[ch] ELSE {}) \cup {sock}
     ELSE chs[c] \ {sock}]

\* channels.set(ch, new Set()) if absent; channels.get(ch).add(ws)
AddMember(chs, ch, sock) ==
  [c \in DOMAIN chs \cup {ch} |->
     IF c = ch THEN (IF ch \in DOMAIN chs THEN chs[ch] ELSE {}) \cup {sock}
     ELSE chs[c]]

\* the type === "join" branch of websocket.message
HubJoin(chs, st, sock, data) ==
  LET ch == Get(data, "channel") IN
  IF ~Truthy(ch)
  THEN [channels |-> chs, out |-> SendTo(sock, ChannelRequiredNotice)]
  ELSE LET added == AddMember(chs, ch, sock) IN
       [channels |-> added,
        out |-> Cat(Cat(SendTo(sock, JoinedNotice(ch)), SendTo(sock, JoinAck(data, ch))),
                    broadcast(added, st, ch, NewUserNotice(ch), sock))]

\* a relay that skips the sender instead of tagging it "You"
HubRelayNoEcho(chs, st, sock, data) ==
  LET ch == Get(data, "channel") IN
  IF ~(ch \in DOMAIN chs /\ sock \in chs[ch])
  THEN [channels |-> chs, out |-> SendTo(sock, JoinFirstNotice)]
  ELSE [channels |-> chs,
        out |-> [client \in Endpoints |->
                   IF client \in chs[ch] /\ client # sock /\ st[client] = "open"
                   THEN <<BroadcastEnv(data, "Remote", ch)>>
                   ELSE <<>>]]

\* a relay that only checks that the channel exists, not that the sender joined it
HubRelayNoCheck(chs, st, sock, data) ==
  LET ch == Get(data, "channel") IN
  IF ch \notin DOMAIN chs
  THEN [channels |-> chs, out |-> SendTo(sock, JoinFirstNotice)]
  ELSE [channels |-> chs,
        out |-> [client \in Endpoints |->
                   IF client \in chs[ch] /\ st[client] = "open"
                   THEN <<BroadcastEnv(data, IF client = sock THEN "You" ELSE "Remote", ch)>>
                   ELSE <<>>]]

\* the type === "message" branch of websocket.message
HubRelay(chs, st, sock, data) ==
  LET ch == Get(data, "channel") IN
  IF ~(ch \in DOMAIN chs /\ sock \in chs[ch])
  THEN [channels |-> chs, out |-> SendTo(sock, JoinFirstNotice)]
  ELSE [channels |-> chs,
        out |-> [client \in Endpoints |->
                   IF client \in chs[ch] /\ st[client] = "open"
                   THEN <<BroadcastEnv(data, IF client = sock THEN "You" ELSE "Remote", ch)>>
                   ELSE <<>>]]

\* a handler that evicts the sender of a frame it cannot parse
HubOnMessageEvicts(chs, st, sock, raw) ==
  IF ParseThrows(raw)
  THEN [channels |-> removeFromChannelsReg(chs, sock),
        out |-> removeFromChannelsOut(chs, st, sock)]
  ELSE IF Get(raw, "type") = "join" THEN HubJoin(chs, st, sock, raw)
  ELSE IF Get(raw, "type") = "message" THEN HubRelay(chs, st, sock, raw)
  ELSE [channels |-> chs, out |-> NoOut]

\* websocket.message(ws, raw)
HubOnMessage(chs, st, sock, raw) ==
  IF ParseThrows(raw) THEN [channels |-> chs, out |-> NoOut]
  ELSE IF Get(raw, "type") = "join" THEN HubJoin(chs, st, sock, raw)
  ELSE IF Get(raw, "type") = "message" THEN HubRelay(chs, st, sock, raw)
  ELSE [channels |-> chs, out |-> NoOut]

\* ------------------------------------------------------ Hub: transitions
HasErrorNotice(q) == \E k \in 1..Len(q) : q[k].type = "error"

\* websocket.open(ws): what it sends
HubOpenOut(e) == SendTo(e, ConnectedNotice)

\* websocket.open(ws)
HubOpenStep(e) ==
  /\ hubState[e] = "none"
  /\ hubState' = [hubState EXCEPT ![e] = "open"]
  /\ UNCHANGED <<channels, errNoticed>>

\* websocket.message(ws, raw)
HubMessageStep(e, raw) ==
  /\ hubState[e] = "open"
  /\ LET r == HubOnMessage(channels, hubState, e, raw) IN
       /\ channels' = r.channels
       /\ errNoticed' = errNoticed \cup {x \in Endpoints : HasErrorNotice(r.out[x])}
  /\ UNCHANGED hubState

\* websocket.close(ws)
HubCloseStep(e) ==
  /\ hubState[e] = "open"
  /\ hubState' = [hubState EXCEPT ![e] = "closed"]
  /\ channels' = removeFromChannelsReg(channels, e)
  /\ UNCHANGED errNoticed

\* ------------------------------------------------------------------ Init
NoOutcome == [kind |-> "pending", via |-> "none", value |-> Undefined]
NoSent == [sock |-> NoEp, open |-> FALSE, joined |-> FALSE, own |-> NoEp, ownJoined |-> FALSE]

Init ==
  /\ channels = << >>
  /\ hubState = [e \in Endpoints |-> "none"]
  /\ hubOut = NoOut
  /\ lastOp = [op |-> "none", ep |-> NoEp, raw |-> NoRaw, before |-> << >>, states |-> hubState]
  /\ hubEvents = 0
  /\ errNoticed = {}
  /\ toHub = [e \in Endpoints |-> <<>>]
  /\ inbox = [e \in Endpoints |-> <<>>]
  /\ down = {}
  /\ ws = NoEp
  /\ rs = [s \in Socks |-> "unborn"]
  /\ connOf = [s \in Socks |-> 0]
  /\ pending = {}
  /\ timers = {}
  /\ calls = 0
  /\ nextId = 0
  /\ pc = [i \in Invokes |-> "idle"]
  /\ req = [i \in Invokes |-> NoRaw]
  /\ outcome = [i \in Invokes |-> NoOutcome]
  /\ settles = [i \in Invokes |-> 0]
  /\ removes = [i \in Invokes |-> 0]
  /\ settledBy = [i \in Invokes |-> NoRaw]
  /\ sentOn = [i \in Invokes |-> NoSent]
  /\ joinSent = {}
  /\ dropped = {}
  /\ ignored = {}
  /\ got = [e \in Endpoints |-> <<>>]
  /\ crashed = FALSE
  /\ xJoined = FALSE
  /\ running = {}
  /\ emitted = {}
  /\ handled = <<>>
  /\ ran = {}
  /\ posted = <<>>
  /\ due = NoRaw

\* ------------------------------------------- the Hub with arbitrary clients
Payloads == {[foo |-> 1], [id |-> "id1", result |-> "r"]}

ChannelInputs == ChannelNames \cup {""}

RawInputs ==
  {[type |-> "join", channel |-> c, id |-> JoinId] : c \in ChannelInputs}
  \cup {[type |-> "join", id |-> JoinId], [type |-> "join", channel |-> CHANNEL]}
  \cup {[type |-> "message", channel |-> CHANNEL, message |-> p] : p \in Payloads}
  \cup {[type |-> "message", channel |-> c, message |-> [foo |-> 1]] : c \in ChannelInputs}
  \cup {[type |-> "message", channel |-> CHANNEL], [type |-> "message", message |-> [foo |-> 1]]}
  \cup {[type |-> "ping"], [malformed |-> TRUE]}

ClientConnects(e) ==
  /\ HubOpenStep(e)
  /\ hubOut' = HubOpenOut(e)
  /\ lastOp' = [op |-> "open", ep |-> e, raw |-> NoRaw, before |-> channels, states |-> hubState]
  /\ UNCHANGED <<hubEvents, wireVars, issuerVars, got, execVars>>

ClientSends(e) ==
  /\ hubEvents < MaxHubEvents
  /\ \E raw \in RawInputs :
       /\ HubMessageStep(e, raw)
       /\ hubOut' = HubOnMessage(channels, hubState, e, raw).out
       /\ lastOp' = [op |-> "message", ep |-> e, raw |-> raw, before |-> channels,
                     states |-> hubState]
  /\ hubEvents' = hubEvents + 1
  /\ UNCHANGED <<wireVars, issuerVars, got, execVars>>

ClientCloses(e) ==
  /\ HubCloseStep(e)
  /\ hubOut' = removeFromChannelsOut(channels, hubState', e)
  /\ lastOp' = [op |-> "close", ep |-> e, raw |-> NoRaw, before |-> channels, states |-> hubState]
  /\ UNCHANGED <<hubEvents, wireVars, issuerVars, got, execVars>>

HubNext ==
  \/ \E e \in Endpoints : ClientConnects(e)
  \/ \E e \in Endpoints : ClientSends(e)
  \/ \E e \in Endpoints : ClientCloses(e)

HubSpec == Init /\ [][HubNext]_vars

\* ------------------------------------------------------------ the wires
\* the plugin UI hands a relayed command envelope to code.js
IsCommand(data) ==
  /\ Get(data, "type") = "broadcast"
  /\ "message" \in DOMAIN data
  /\ "command" \in DOMAIN data.message

\* A frame sent by the Hub reaches the client unless the client side of the
\* connection is already closed.
Listening(e) == IF e = ExecEp THEN TRUE ELSE rs[e] \notin {"closing", "closed"}

\* The plugin UI passes command envelopes on to code.js and ignores every
\* other frame, so only those are kept for the Executor.
Delivered(box, out) ==
  [e \in Endpoints |->
     IF e = ExecEp THEN box[e] \o SelectSeq(out[e], IsCommand)
     ELSE IF Listening(e) THEN box[e] \o out[e] ELSE box[e]]

\* socket.send(env) on the client side of connection w whose readyState is
\* state: a frame sent on a socket that is not OPEN, or whose peer is gone,
\* is lost.
ClientSend(th, state, w, env) ==
  IF state = "open" /\ hubState[w] # "closed"
  THEN [th EXCEPT ![w] = Append(@, env)]
  ELSE th

\* ------------------------------------------------------------ the Issuer
IdStr(n) == "id" \o ToString(n)

JoinEnvelope == [type |-> "join", channel |-> CHANNEL, id |-> JoinId]

RequestEnvelope(msg) == [type |-> "message", channel |-> CHANNEL, message |-> msg]

TimeoutMessage(command) == "Timeout waiting for Figma response (command: " \o command \o ")"

\* a promise settles once: later resolve/reject calls leave it as it is
Settle(o, new) == IF o.kind = "pending" THEN new ELSE o

\* the invoke whose pending entry is registered under id
InvokeOf(id) == CHOOSE i \in Invokes : Get(req[i], "id") = id

\* no sendCommand call is between the resolve() of its connect() promise and
\* its continuation: the microtask queue of the Issuer is empty, so the next
\* timer or socket event of the Issuer can run
Quiet == \A i \in Invokes : pc[i] # "connected"

\* the socket invoke i created in connect(), NoEp when it found one OPEN
OwnSocket(i) ==
  IF \E s \in Socks : connOf[s] = i THEN CHOOSE s \in Socks : connOf[s] = i ELSE NoEp

\* the continuations that are queued belong to calls that found the socket
\* OPEN: the task running is one that calls sendCommand and may call it again
\* before the first continuation runs.  A continuation queued by an open
\* listener runs before any code that could call sendCommand.
CallWindow == \A i \in Invokes : pc[i] = "connected" => OwnSocket(i) = NoEp

\* readyState of the module-level socket, "null" when ws is null
WsState == IF ws = NoEp THEN "null" ELSE rs[ws]

\* sendCommand after `await connect()`: lines 72-85, with the module-level
\* socket w in readyState state, th the frames already sent by this task.
\* ws!.send throws on a null or CONNECTING socket: the exception leaves the
\* promise executor and rejects the promise, after pending.set and setTimeout.
SendCommandBody(i, command, params, w, state, th, js, own) ==
  LET id == IdStr(nextId + 1)
      msg == [id |-> id, command |-> command, params |-> params]
  IN /\ nextId' = nextId + 1
     /\ timers' = timers \cup {i}
     /\ pending' = pending \cup {id}
     /\ req' = [req EXCEPT ![i] = msg]
     /\ toHub' = IF state \in {"null", "connecting"} THEN th
                 ELSE ClientSend(th, state, w, RequestEnvelope(msg))
     /\ pc' = [pc EXCEPT ![i] = "sent"]
     /\ sentOn' = [sentOn EXCEPT ![i] =
                     [sock |-> w, open |-> state = "open", joined |-> w \in js,
                      own |-> own, ownJoined |-> own \in js]]
     /\ IF state \in {"null", "connecting"}
        THEN /\ outcome' = [outcome EXCEPT ![i] =
                              Settle(@, [kind |-> "rejected", via |-> "send",
                                         value |-> "send failed"])]
             /\ settles' = [settles EXCEPT ![i] = @ + 1]
        ELSE UNCHANGED <<outcome, settles>>

\* sendCommand(command, params) up to `await connect()`: connect() either
\* resolves at once (socket OPEN), which queues the continuation of
\* sendCommand, or creates a socket and the caller waits for its open/error
\* event
Invoke(i, command, params) ==
  /\ ~crashed
  /\ CallWindow
  /\ i = calls + 1
  /\ pc[i] = "idle"
  /\ calls' = i
  /\ req' = [req EXCEPT ![i] = [command |-> command, params |-> params]]
  /\ IF ws # NoEp /\ rs[ws] = "open"
     THEN /\ pc' = [pc EXCEPT ![i] = "connected"]
          /\ UNCHANGED <<ws, rs, connOf>>
     ELSE /\ \E s \in Socks :
               /\ rs[s] = "unborn"
               /\ \A t \in Socks : rs[t] = "unborn" => s <= t
               /\ ws' = s
               /\ rs' = [rs EXCEPT ![s] = "connecting"]
               /\ connOf' = [connOf EXCEPT ![s] = i]
          /\ pc' = [pc EXCEPT ![i] = "awaitConnect"]
  /\ UNCHANGED <<hubVars, wireVars, nextId, timers, pending, sentOn, outcome, settles,
                 removes, settledBy, joinSent, dropped, ignored, got, crashed, execVars>>

\* ws.once("open"): the listener of socket s.  It sends the join on the
\* module-level ws, which is null after any close event and may be a newer,
\* still CONNECTING socket; both make send throw inside the listener, before
\* resolve().  Otherwise resolve() schedules the continuation of sendCommand.
WsOpen(s) ==
  /\ ~crashed
  /\ Quiet
  /\ rs[s] = "connecting"
  /\ hubState[s] # "none"
  /\ rs' = [rs EXCEPT ![s] = "open"]
  /\ IF ws = NoEp \/ rs'[ws] = "connecting"
     THEN /\ crashed' = TRUE
          /\ UNCHANGED <<toHub, pc, joinSent>>
     ELSE /\ joinSent' = IF rs'[ws] = "open" THEN joinSent \cup {ws} ELSE joinSent
          /\ toHub' = ClientSend(toHub, rs'[ws], ws, JoinEnvelope)
          /\ pc' = [pc EXCEPT ![connOf[s]] = "connected"]
          /\ UNCHANGED crashed
  /\ UNCHANGED <<hubVars, inbox, down, ws, connOf, calls, nextId, timers, pending, req,
                 sentOn, outcome, settles, removes, settledBy, dropped, ignored, got,
                 execVars>>

\* the continuation of sendCommand after `await connect()` resolved: queued
\* continuations run in the order of their calls, before any timer or socket
\* event; one queued by the open listener runs once the frames that came
\* with the upgrade response have been handled
SendCommandResume(i) ==
  /\ ~crashed
  /\ pc[i] = "connected"
  /\ \A j \in Invokes : j < i => pc[j] # "connected"
  /\ SendCommandBody(i, req[i].command, req[i].params, ws, WsState, toHub, joinSent,
                     OwnSocket(i))
  /\ UNCHANGED <<hubVars, inbox, down, ws, rs, connOf, calls, removes, settledBy, joinSent,
                 dropped, ignored, got, crashed, execVars>>

\* ws.on("error") of a socket that fails to connect: reject(err) fails the
\* waiting sendCommand before it generates an id.  When the HTTP request
\* fails, the close event is emitted right after the error event and the
\* close listener sets ws = null in the same task; when the answer to the
\* upgrade is invalid, the socket is left CLOSING, ws keeps its value and the
\* close event comes in a later task (WsClose), after the rejected caller
\* has run.
WsError(s) ==
  /\ ~crashed
  /\ Quiet
  /\ rs[s] = "connecting"
  /\ s \in down
  /\ \/ /\ rs' = [rs EXCEPT ![s] = "closed"]
        /\ ws' = NoEp
     \/ /\ rs' = [rs EXCEPT ![s] = "closing"]
        /\ UNCHANGED ws
  /\ outcome' = [outcome EXCEPT ![connOf[s]] =
                   Settle(@, [kind |-> "rejected", via |-> "connect", value |-> "connect failed"])]
  /\ settles' = [settles EXCEPT ![connOf[s]] = @ + 1]
  /\ pc' = [pc EXCEPT ![connOf[s]] = "failed"]
  /\ inbox' = [inbox EXCEPT ![s] = <<>>]
  /\ UNCHANGED <<hubVars, toHub, down, connOf, pending, timers, calls, nextId, req, removes,
                 settledBy, sentOn, joinSent, dropped, ignored, got, crashed, execVars>>

\* readyState of an open socket becomes CLOSING (a close frame or an invalid
\* frame arrived, or the connection ended); the close listener has not run
\* yet and ws still refers to whatever it referred to.  On a socket that has
\* just opened this happens before the continuation of sendCommand when the
\* frame came with the upgrade response.
WsClosing(s) ==
  /\ ~crashed
  /\ \A i \in Invokes : pc[i] = "connected" => connOf[s] = i
  /\ rs[s] = "open"
  /\ s \in down
  /\ rs' = [rs EXCEPT ![s] = "closing"]
  /\ inbox' = [inbox EXCEPT ![s] = <<>>]
  /\ UNCHANGED <<hubVars, toHub, down, ws, connOf, pending, timers, calls, nextId, pc, req,
                 outcome, settles, removes, settledBy, sentOn, joinSent, dropped, ignored,
                 got, crashed, execVars>>

\* ws.on("close") of a socket that was open, or whose error event left it
\* CLOSING: readyState is CLOSED and the listener sets ws = null, whichever
\* socket ws refers to (an error event on an open socket only calls the
\* reject of an already settled connect promise)
WsClose(s) ==
  /\ ~crashed
  /\ Quiet
  /\ rs[s] \in {"open", "closing"}
  /\ s \in down
  /\ rs' = [rs EXCEPT ![s] = "closed"]
  /\ ws' = NoEp
  /\ inbox' = [inbox EXCEPT ![s] = <<>>]
  /\ UNCHANGED <<hubVars, toHub, down, connOf, pending, timers, calls, nextId, pc, req, outcome,
                 settles, removes, settledBy, sentOn, joinSent, dropped, ignored, got, crashed,
                 execVars>>

\* a delivery that relays a message of the channel
IsRelay(data) == Get(data, "type") = "broadcast" /\ "message" \in DOMAIN data

\* a test that forgets data.type === "broadcast"
IsBroadcastAnyType(data) ==
  /\ ~ParseThrows(data)
  /\ "message" \in DOMAIN data
  /\ data.message # [str |-> ""]

\* data.type === "broadcast" && data.message
IsBroadcast(data) ==
  /\ ~ParseThrows(data)
  /\ Get(data, "type") = "broadcast"
  /\ "message" \in DOMAIN data
  /\ data.message # [str |-> ""]

\* if (msg.error) handler.reject(new Error(msg.error)); else handler.resolve(msg.result)
ReplyOutcome(msg) ==
  IF Truthy(Get(msg, "error"))
  THEN [kind |-> "rejected", via |-> "reply", value |-> msg.error]
  ELSE [kind |-> "resolved", via |-> "reply", value |-> Get(msg, "result")]

\* a registered handler that forgets clearTimeout(timer)
ClearTimeoutForgotten(ts, i) == ts

\* clearTimeout(timer) in the registered resolve/reject pair
ClearTimeout(ts, i) == ts \ {i}

\* a lookup that takes any registered entry, whatever id the message carries
LookupKeyAny(msg) ==
  IF Get(msg, "id") \in pending /\ pending # {Get(msg, "id")}
  THEN CHOOSE k \in pending : k # Get(msg, "id")
  ELSE Get(msg, "id")

\* pending.get(msg.id): the key looked up for a received message
LookupKey(msg) == Get(msg, "id")

\* a message handler that settles the request but forgets pending.delete
WsMessageKeepsEntry(s) ==
  /\ ~crashed
  /\ rs[s] = "open"
  /\ \A i \in Invokes : pc[i] = "connected" => connOf[s] = i
  /\ inbox[s] # <<>>
  /\ inbox' = [inbox EXCEPT ![s] = Tail(@)]
  /\ LET data == Head(inbox[s]) IN
       IF IsBroadcast(data) /\ LookupKey(data.message) \in pending
          THEN LET msg == data.message
                   i == InvokeOf(LookupKey(msg))
               IN /\ timers' = ClearTimeout(timers, i)
                  /\ outcome' = [outcome EXCEPT ![i] = Settle(@, ReplyOutcome(msg))]
                  /\ settles' = [settles EXCEPT ![i] = @ + 1]
                  /\ settledBy' = [settledBy EXCEPT ![i] = msg]
                  /\ UNCHANGED <<pending, removes, dropped, ignored>>
          ELSE /\ dropped' = IF IsBroadcast(data) THEN dropped \cup {data.message} ELSE dropped
               /\ ignored' = IF IsBroadcast(data) THEN ignored ELSE ignored \cup {data}
               /\ UNCHANGED <<pending, removes, timers, outcome, settles, settledBy>>
  /\ got' = [got EXCEPT ![s] = IF IsRelay(Head(inbox[s]))
                                THEN Append(@, Head(inbox[s]).message) ELSE @]
  /\ UNCHANGED <<hubVars, toHub, down, ws, rs, connOf, calls, nextId, pc, req, sentOn,
                 joinSent, crashed, execVars>>

\* ws.on("message") of socket s
WsMessage(s) ==
  /\ ~crashed
  /\ rs[s] = "open"
  /\ \A i \in Invokes : pc[i] = "connected" => connOf[s] = i
  /\ inbox[s] # <<>>
  /\ inbox' = [inbox EXCEPT ![s] = Tail(@)]
  /\ LET data == Head(inbox[s]) IN
       IF IsBroadcast(data) /\ LookupKey(data.message) \in pending
          THEN LET msg == data.message
                   i == InvokeOf(LookupKey(msg))
               IN /\ pending' = pending \ {LookupKey(msg)}
                  /\ removes' = [removes EXCEPT ![i] = @ + 1]
                  /\ timers' = ClearTimeout(timers, i)
                  /\ outcome' = [outcome EXCEPT ![i] = Settle(@, ReplyOutcome(msg))]
                  /\ settles' = [settles EXCEPT ![i] = @ + 1]
                  /\ settledBy' = [settledBy EXCEPT ![i] = msg]
                  /\ UNCHANGED <<dropped, ignored>>
          ELSE /\ dropped' = IF IsBroadcast(data) THEN dropped \cup {data.message} ELSE dropped
               /\ ignored' = IF IsBroadcast(data) THEN ignored ELSE ignored \cup {data}
               /\ UNCHANGED <<pending, removes, timers, outcome, settles, settledBy>>
  /\ got' = [got EXCEPT ![s] = IF IsRelay(Head(inbox[s]))
                                THEN Append(@, Head(inbox[s]).message) ELSE @]
  /\ UNCHANGED <<hubVars, toHub, down, ws, rs, connOf, calls, nextId, pc, req, sentOn,
                 joinSent, crashed, execVars>>

\* a timer callback that rejects but leaves the entry in the registry
TimeoutKeepsEntry(i) ==
  /\ ~crashed
  /\ Quiet
  /\ i \in timers
  /\ timers' = timers \ {i}
  /\ outcome' = [outcome EXCEPT ![i] =
                   Settle(@, [kind |-> "rejected", via |-> "timer",
                              value |-> TimeoutMessage(req[i].command)])]
  /\ settles' = [settles EXCEPT ![i] = @ + 1]
  /\ UNCHANGED <<hubVars, wireVars, ws, rs, connOf, calls, nextId, pc, req, settledBy,
                 sentOn, joinSent, dropped, ignored, got, crashed, execVars, pending, removes>>

\* the setTimeout callback of sendCommand
Timeout(i) ==
  /\ ~crashed
  /\ Quiet
  /\ i \in timers
  /\ timers' = timers \ {i}
  /\ pending' = pending \ {req[i].id}
  /\ removes' = [removes EXCEPT ![i] = @ + (IF req[i].id \in pending THEN 1 ELSE 0)]
  /\ outcome' = [outcome EXCEPT ![i] =
                   Settle(@, [kind |-> "rejected", via |-> "timer",
                              value |-> TimeoutMessage(req[i].command)])]
  /\ settles' = [settles EXCEPT ![i] = @ + 1]
  /\ UNCHANGED <<hubVars, wireVars, ws, rs, connOf, calls, nextId, pc, req, settledBy,
                 sentOn, joinSent, dropped, ignored, got, crashed, execVars>>

\* ----------------------------------------------------------- the Executor
\* the plugin UI connects and joins the channel
ExecJoin ==
  /\ ~xJoined
  /\ hubState[ExecEp] = "open"
  /\ xJoined' = TRUE
  /\ toHub' = [toHub EXCEPT ![ExecEp] = Append(@, [type |-> "join", channel |-> CHANNEL])]
  /\ UNCHANGED <<hubVars, inbox, down, issuerVars, got, running, emitted, handled, ran, posted,
                 due>>

\* the message of the Error a handler of the table throws itself
HandlerThrows(msg) ==
  (IF msg.command \in NodeCommands
   THEN {"Node not found: " \o Get(msg, "params")} ELSE {})
  \cup (IF msg.command = "set_fill_color" THEN {"Node does not support fills"} ELSE {})
  \cup (IF msg.command = "move_node" THEN {"Node does not support position"} ELSE {})
  \cup (IF msg.command = "resize_node" THEN {"Node does not support resize"} ELSE {})
  \cup (IF msg.command = "set_text_content"
        THEN {"Text node not found: " \o Get(msg, "params")} ELSE {})

\* err.message of what a handler can throw: its own Error, or an error of a
\* call into the Figma API, whose message may be empty
HandlerErrors(msg) == HandlerThrows(msg) \cup {""}

\* what the call handler(params) of a handler of the table gives: a value
\* or a thrown error; an async handler gives a promise, rejected when it
\* throws before its first await
HandlerOutcomes(msg) ==
  (IF msg.command \in AsyncCommands THEN {}
   ELSE {[ok |-> TRUE, value |-> "done:" \o msg.command \o ":" \o Get(msg, "params")]})
  \cup {[ok |-> FALSE, value |-> e] : e \in HandlerErrors(msg)}

\* how a suspended async handler ends: it returns, or the Figma API call it
\* awaited or makes afterwards fails
ResumeOutcomes(msg) ==
  {[ok |-> TRUE, value |-> "done:" \o msg.command \o ":" \o Get(msg, "params")],
   [ok |-> FALSE, value |-> ""]}

\* const handler = handlers[command]; if (!handler) ...: is the value truthy
HandlerFound(command) ==
  command \in HandlerTable \cup InheritedFunctions \cup InheritedObjects

\* handler(params) for a member of Object.prototype, called with no receiver:
\* Object(params) returns its argument, toString names the missing receiver,
\* the other functions throw on it, and an object is not callable
InheritedOutcome(msg) ==
  IF msg.command = "constructor" THEN [ok |-> TRUE, value |-> Get(msg, "params")]
  ELSE IF msg.command = "toString" THEN [ok |-> TRUE, value |-> "[object Undefined]"]
  ELSE IF msg.command = "toLocaleString"
    THEN [ok |-> FALSE, value |-> "Object.prototype.toLocaleString called on null or undefined"]
  ELSE IF msg.command \in InheritedObjects
    THEN [ok |-> FALSE, value |-> "handler is not a function"]
  ELSE [ok |-> FALSE, value |-> "Cannot convert undefined or null to object"]

\* handler(params): a handler of the table, or an inherited member
CallOutcomes(msg) ==
  IF msg.command \in HandlerTable THEN HandlerOutcomes(msg)
  ELSE {InheritedOutcome(msg)}

\* figma.ui.postMessage({ id, result }) / ({ id, error: err.message })
Reply(msg, res) ==
  IF res.ok THEN [id |-> msg.id, result |-> res.value]
  ELSE [id |-> msg.id, error |-> res.value]

\* handlers[command] missing: throw new Error(`Unknown command: ${command}`)
UnknownCommand(msg) == [ok |-> FALSE, value |-> "Unknown command: " \o msg.command]

\* the plugin UI relays a reply into the channel
PostReply(reply) ==
  /\ emitted' = emitted \cup {reply}
  /\ posted' = Append(posted, reply)
  /\ toHub' = IF hubState[ExecEp] = "open"
              THEN [toHub EXCEPT ![ExecEp] = Append(@, RequestEnvelope(reply))]
              ELSE toHub

\* a function that is not async throws out of handler(params): the catch
\* block posts the error before onmessage suspends
ThrownAtCall(msg, res) == ~res.ok /\ msg.command \notin AsyncCommands

\* figma.ui.onmessage up to its first suspension: an unknown command and a
\* handler that throws are answered at once; a returned value or an already
\* settled promise is answered when `await Promise.resolve(...)` resumes; an
\* async handler that reached its first await stays suspended
ExecReceive ==
  /\ due = NoRaw
  /\ inbox[ExecEp] # <<>>
  /\ inbox' = [inbox EXCEPT ![ExecEp] = Tail(@)]
  /\ LET data == Head(inbox[ExecEp]) IN
       IF ~IsCommand(data) THEN UNCHANGED <<toHub, running, emitted, handled, ran, posted, due>>
       ELSE /\ handled' = Append(handled, data.message)
            /\ IF ~HandlerFound(data.message.command)
               THEN /\ PostReply(Reply(data.message, UnknownCommand(data.message)))
                    /\ UNCHANGED <<running, ran, due>>
               ELSE /\ ran' = ran \cup {data.message}
                    /\ \/ /\ data.message.command \in AsyncCommands
                          /\ running' = running \cup {data.message}
                          /\ UNCHANGED <<toHub, emitted, posted, due>>
                       \/ \E res \in CallOutcomes(data.message) :
                             IF ThrownAtCall(data.message, res)
                             THEN /\ PostReply(Reply(data.message, res))
                                  /\ UNCHANGED <<running, due>>
                             ELSE /\ due' = Reply(data.message, res)
                                  /\ UNCHANGED <<toHub, running, emitted, posted>>
  /\ got' = [got EXCEPT ![ExecEp] = IF IsRelay(Head(inbox[ExecEp]))
                                     THEN Append(@, Head(inbox[ExecEp]).message) ELSE @]
  /\ UNCHANGED <<hubVars, down, issuerVars, xJoined>>

\* the continuation of onmessage after `await Promise.resolve(handler(params))`:
\* it runs before the next message is handled
ExecPost ==
  /\ due # NoRaw
  /\ PostReply(due)
  /\ due' = NoRaw
  /\ UNCHANGED <<hubVars, inbox, down, issuerVars, got, xJoined, running, handled, ran>>

\* an asynchronous handler that settles twice
ExecCompleteTwice(msg) ==
  /\ due = NoRaw
  /\ msg \in running
  /\ running' = running
  /\ \E res \in ResumeOutcomes(msg) : PostReply(Reply(msg, res))
  /\ UNCHANGED <<hubVars, inbox, down, issuerVars, got, xJoined, handled, ran, due>>

\* the operation a suspended handler awaits settles: the handler runs to its
\* end and onmessage posts the reply
ExecComplete(msg) ==
  /\ due = NoRaw
  /\ msg \in running
  /\ running' = running \ {msg}
  /\ \E res \in ResumeOutcomes(msg) : PostReply(Reply(msg, res))
  /\ UNCHANGED <<hubVars, inbox, down, issuerVars, got, xJoined, handled, ran, due>>

\* ----------------------------------- the Executor with arbitrary requests
\* the plugin UI hands code.js a command envelope relayed by the Hub
ExecFeed(command, params) ==
  /\ Len(handled) + Len(inbox[ExecEp]) < MaxFeeds
  /\ inbox' = [inbox EXCEPT ![ExecEp] =
                 Append(@, [type |-> "broadcast",
                            message |-> [id |-> IdStr(Len(handled) + Len(inbox[ExecEp]) + 1),
                                         command |-> command, params |-> params],
                            sender |-> "Remote", channel |-> CHANNEL])]
  /\ UNCHANGED <<hubVars, toHub, down, issuerVars, got, execVars>>

ExecNext ==
  \/ \E c \in FeedCommands, p \in Params : ExecFeed(c, p)
  \/ ExecReceive
  \/ ExecPost
  \/ \E msg \in running : ExecComplete(msg)

ExecSpec == Init /\ [][ExecNext]_vars

\* ------------------------------------------------ the Hub in the pipeline
HubAccept(e) ==
  /\ IF e = ExecEp THEN TRUE ELSE rs[e] = "connecting"
  /\ HubOpenStep(e)
  /\ e \notin down
  /\ inbox' = Delivered(inbox, HubOpenOut(e))
  /\ UNCHANGED <<hubOut, lastOp, hubEvents, toHub, down, issuerVars, got, execVars>>

\* a handler that lets a later frame of a connection overtake an earlier one
HubDeliverAny(e) ==
  /\ toHub[e] # <<>>
  /\ \E k \in 1..Len(toHub[e]) :
       /\ HubMessageStep(e, toHub[e][k])
       /\ toHub' = [toHub EXCEPT ![e] = SubSeq(@, 1, k - 1) \o SubSeq(@, k + 1, Len(@))]
       /\ inbox' = Delivered(inbox, HubOnMessage(channels, hubState, e, toHub[e][k]).out)
  /\ UNCHANGED <<hubOut, lastOp, hubEvents, down, issuerVars, got, execVars>>

\* websocket.message for the next frame of connection e
HubDeliver(e) ==
  /\ toHub[e] # <<>>
  /\ HubMessageStep(e, Head(toHub[e]))
  /\ toHub' = [toHub EXCEPT ![e] = Tail(@)]
  /\ inbox' = Delivered(inbox, HubOnMessage(channels, hubState, e, Head(toHub[e])).out)
  /\ UNCHANGED <<hubOut, lastOp, hubEvents, down, issuerVars, got, execVars>>

HubDrop(e) ==
  /\ e \in down
  /\ HubCloseStep(e)
  /\ toHub' = [toHub EXCEPT ![e] = <<>>]
  /\ inbox' = Delivered(inbox, removeFromChannelsOut(channels, hubState', e))
  /\ UNCHANGED <<hubOut, lastOp, hubEvents, down, issuerVars, got, execVars>>

\* the transport of a connection fails: both ends will see it close
Disconnect(e) ==
  /\ Cardinality(down) < MaxFaults
  /\ e \notin down
  /\ IF e = ExecEp THEN hubState[e] = "open" ELSE rs[e] \in {"connecting", "open"}
  /\ down' = down \cup {e}
  /\ UNCHANGED <<hubVars, toHub, inbox, issuerVars, got, execVars>>

Next ==
  \/ \E i \in Invokes, c \in Commands, p \in Params : Invoke(i, c, p)
  \/ \E s \in Socks : WsOpen(s)
  \/ \E i \in Invokes : SendCommandResume(i)
  \/ \E s \in Socks : WsError(s)
  \/ \E s \in Socks : WsClosing(s)
  \/ \E s \in Socks : WsClose(s)
  \/ \E s \in Socks : WsMessage(s)
  \/ \E i \in Invokes : Timeout(i)
  \/ ExecJoin
  \/ ExecReceive
  \/ ExecPost
  \/ \E msg \in running : ExecComplete(msg)
  \/ \E e \in Endpoints : HubAccept(e)
  \/ \E e \in Endpoints : HubDeliver(e)
  \/ \E e \in Endpoints : HubDrop(e)
  \/ \E e \in Endpoints : Disconnect(e)

Spec == Init /\ [][Next]_vars

\* ------------------------------------ the Issuer with arbitrary deliveries
\* frames a socket of the Issuer can be handed while the ids are registered:
\* the Hub's notices, a relay without message, a frame that does not parse,
\* and a join acknowledgment and a relay that carry one of the ids
DeliveryInputs(ids) ==
  {JoinFirstNotice, ConnectedNotice, [malformed |-> TRUE],
   BroadcastEnv([type |-> "message"], "Remote", CHANNEL)}
  \cup {JoinAck([id |-> id], CHANNEL) : id \in ids}
  \cup {BroadcastEnv([message |-> [id |-> id, result |-> "r"]], "Remote", CHANNEL) : id \in ids}

\* a frame arrives on a socket whose upgrade was answered, before or after
\* its open event
Inject(s) ==
  /\ rs[s] \in {"connecting", "open"}
  /\ hubState[s] # "none"
  /\ Len(inbox[s]) < MaxInjects
  /\ \E frame \in DeliveryInputs(pending) :
       inbox' = [inbox EXCEPT ![s] = Append(@, frame)]
  /\ UNCHANGED <<hubVars, toHub, down, issuerVars, got, execVars>>

IssuerNext ==
  \/ \E i \in Invokes, c \in Commands, p \in Params : Invoke(i, c, p)
  \/ \E s \in Socks : HubAccept(s)
  \/ \E s \in Socks : WsOpen(s)
  \/ \E i \in Invokes : SendCommandResume(i)
  \/ \E s \in Socks : WsError(s)
  \/ \E s \in Socks : WsClosing(s)
  \/ \E s \in Socks : WsClose(s)
  \/ \E s \in Socks : Inject(s)
  \/ \E s \in Socks : WsMessage(s)
  \/ \E i \in Invokes : Timeout(i)
  \/ \E s \in Socks : Disconnect(s)

IssuerSpec == Init /\ [][IssuerNext]_vars

\* ===================================================================
\* Properties of the composed system (Spec)
\* ===================================================================
Registered(i) == pc[i] = "sent"

IdOf(i) == Get(req[i], "id")

\* C1: whenever an invoke resolves, its value is the result field of a reply
\* the Executor emitted for that request's id, and nothing but such a reply
\* (in particular not the Hub's echo of the request itself) settles it.
C1_ResolvedByExecutorReply ==
  \A i \in Invokes :
     /\ settledBy[i] # NoRaw => settledBy[i] \in emitted
     /\ outcome[i].kind = "resolved" =>
          \E r \in emitted : /\ Get(r, "id") = IdOf(i)
                             /\ "result" \in DOMAIN r
                             /\ r.result = outcome[i].value

\* C2: a message carrying id X settles only the request registered under X;
\* every other request stays registered and unsettled, and no invoke is
\* settled by a message whose id differs from its own.
C2_CorrelationIsolation ==
  [][ /\ \A i \in Invokes :
           settledBy'[i] # settledBy[i] => Get(settledBy'[i], "id") = IdOf(i)
      /\ \A s \in Socks :
           WsMessage(s) =>
             \A j \in Invokes :
                (Registered(j) /\ Get(Get(Head(inbox[s]), "message"), "id") # IdOf(j)) =>
                   /\ outcome'[j] = outcome[j]
                   /\ settles'[j] = settles[j]
                   /\ (IdOf(j) \in pending') = (IdOf(j) \in pending)
    ]_vars

\* two requests outstanding at once, one of them settled by the Executor's
\* reply while the other is still registered
C2_Witness ==
  \E i, j \in Invokes :
     /\ i # j
     /\ Registered(i) /\ Registered(j)
     /\ settledBy[i] \in emitted
     /\ IdOf(j) \in pending

\* C3: the resolve/reject pair of an invoke is called at most once in all, its
\* registry entry is removed at most once, and a registered invoke is settled
\* exactly when its entry has been removed.
C3_SettledAtMostOnce ==
  \A i \in Invokes :
     /\ settles[i] <= 1
     /\ removes[i] <= 1
     /\ Registered(i) => /\ (removes[i] = 1) = (IdOf(i) \notin pending)
                         /\ settles[i] = removes[i]
                         /\ (i \in timers) = (IdOf(i) \in pending)

\* a request that timed out and whose reply was then received and dropped
C3_Witness ==
  \E i \in Invokes :
     /\ outcome[i].via = "timer"
     /\ settles[i] = 1
     /\ \E r \in emitted \cap dropped : Get(r, "id") = IdOf(i)

\* C4: when the Issuer's transport closes, every pending request is failed
\* with a transport error at the close event and the registry is left empty.
C4_CloseFailsAllPending ==
  [][ \A s \in Socks :
        WsClose(s) =>
          /\ pending' = {}
          /\ \A i \in Invokes :
               (Registered(i) /\ IdOf(i) \in pending) =>
                  outcome'[i].kind = "rejected" /\ outcome'[i].via = "transport"
    ]_vars

\* C5: when the timer of a still-registered request fires, the invoke is
\* rejected with the timeout error and its entry removed; a message whose id
\* is not registered changes neither the registry nor any outcome.
C5_TimeoutThenLateReplyDropped ==
  [][ /\ \A i \in Invokes :
           (Timeout(i) /\ IdOf(i) \in pending) =>
              /\ outcome'[i] = [kind |-> "rejected", via |-> "timer",
                                value |-> TimeoutMessage(req[i].command)]
              /\ IdOf(i) \notin pending'
      /\ \A s \in Socks :
           (WsMessage(s) /\ \E i \in Invokes :
                               /\ outcome[i].via = "timer"
                               /\ Get(Get(Head(inbox[s]), "message"), "id") = IdOf(i)) =>
              /\ pending' = pending
              /\ outcome' = outcome
              /\ settles' = settles
    ]_vars

\* a timed-out request whose Executor reply arrived afterwards
C5_Witness ==
  \E i \in Invokes :
     /\ Registered(i)
     /\ outcome[i] = [kind |-> "rejected", via |-> "timer",
                      value |-> TimeoutMessage(req[i].command)]
     /\ IdOf(i) \notin pending
     /\ \E r \in emitted \cap dropped : Get(r, "id") = IdOf(i)

\* C6: an invoke settled by a reply envelope of the Executor is rejected with
\* exactly the error string when the envelope has an error field, and is
\* resolved with exactly the result field otherwise.
C6_OutcomeMatchesReply ==
  \A i \in Invokes :
     settledBy[i] \in emitted =>
        outcome[i] = IF "error" \in DOMAIN settledBy[i]
                     THEN [kind |-> "rejected", via |-> "reply", value |-> settledBy[i].error]
                     ELSE [kind |-> "resolved", via |-> "reply", value |-> settledBy[i].result]

\* C7: an invoke made without an open transport sends the join on the
\* connection it established before its request is transmitted; every request
\* goes out on an open connection on which a join was already sent; and the
\* Hub never answers an Issuer socket with an error notice.
C7_JoinBeforeRequest ==
  /\ \A i \in Invokes :
        Registered(i) =>
           /\ sentOn[i].open
           /\ sentOn[i].joined
           /\ sentOn[i].own # NoEp => sentOn[i].ownJoined
  /\ errNoticed \cap Socks = {}

Started(i) == pc[i] # "idle"

\* C17: no invoke is left pending forever.  An invoke that has started and
\* has not settled always has an event outstanding that settles it: the open
\* or error event of the socket its connect() waits for, the continuation
\* that registers the request, or, once the request is registered, its armed
\* timer; and the Issuer is running to handle it.
C17_NoInvokeStuck ==
  \A i \in Invokes :
     (Started(i) /\ outcome[i].kind = "pending") =>
        /\ ~crashed
        /\ pc[i] = "awaitConnect" => \E s \in Socks : connOf[s] = i /\ rs[s] = "connecting"
        /\ pc[i] = "sent" => i \in timers

\* position of invoke i's request in the order of ws.send calls
SendIndex(i) == CHOOSE n \in 1..MaxInvokes : IdStr(n) = IdOf(i)

\* the relayed messages a recipient has got or is about to get, in the order
\* of delivery
Relayed(q) == SelectSeq(q, IsRelay)

MessagesOf(q) == [k \in 1..Len(q) |-> q[k].message]

Arrivals(e) == got[e] \o MessagesOf(Relayed(inbox[e]))

Before(q, a, b) ==
  \A ka, kb \in 1..Len(q) : (q[ka] = a /\ q[kb] = b) => ka < kb

\* C18: two requests sent by the Issuer on the same connection reach every
\* recipient in the order they were sent, and two replies posted by the
\* Executor reach every Issuer socket in the order they were posted.
C18_PerSenderOrder ==
  /\ \A i, j \in Invokes :
        (Registered(i) /\ Registered(j) /\ sentOn[i].sock = sentOn[j].sock
           /\ SendIndex(i) < SendIndex(j)) =>
           \A e \in Endpoints : Before(Arrivals(e), req[i], req[j])
  /\ \A k1, k2 \in 1..Len(posted) :
        (k1 < k2 /\ posted[k1] # posted[k2]) =>
           \A s \in Socks : Before(Arrivals(s), posted[k1], posted[k2])

\* the Executor and the sending socket itself were handed, in send order,
\* the two requests that were sent on the same connection
C18_Witness ==
  \E i, j \in Invokes :
     /\ Registered(i) /\ Registered(j)
     /\ sentOn[i].sock = sentOn[j].sock
     /\ SendIndex(i) < SendIndex(j)
     /\ Len(handled) >= 2
     /\ handled[1].id = IdOf(i)
     /\ handled[2].id = IdOf(j)
     /\ got[ExecEp] = <<req[i], req[j]>>
     /\ got[sentOn[i].sock] = <<req[i], req[j]>>

LiveSockets == {s \in Socks : rs[s] \in {"connecting", "open"}}

\* C20: at most one socket created by connect() is connecting or open, the
\* module-level variable refers to it whenever there is one, and the close or
\* error event of a socket leaves a reference to another socket as it is.
C20_SingleConnection ==
  [][ /\ Cardinality(LiveSockets') <= 1
      /\ LiveSockets' # {} => ws' \in LiveSockets'
      /\ \A s \in Socks : ((WsClose(s) \/ WsError(s)) /\ ws # s) => ws' = ws
    ]_vars

RegisteredIds == {IdOf(i) : i \in {j \in Invokes : Registered(j)}}

\* the request envelopes a queue of frames sent to the Hub holds
RequestIdsIn(q) ==
  {Get(q[k].message, "id") : k \in {n \in 1..Len(q) : Get(q[n], "type") = "message"}}

\* C21: an id is in the pending registry exactly when its request has been
\* registered and its invoke has not settled; every request envelope that was
\* transmitted belongs to a registered request; and the id of an invoke that
\* has resolved or rejected is not in the registry.  A rejection by a failure
\* to transmit does not occur: ws.send never throws in the continuation of
\* sendCommand.
C21_RegistryAgreesWithSettlement ==
  /\ pending \subseteq RegisteredIds
  /\ \A i \in Invokes : outcome[i].via # "send"
  /\ \A i \in Invokes :
        /\ (IdOf(i) \in pending) = (Registered(i) /\ outcome[i].kind = "pending")
        /\ outcome[i].kind # "pending" => IdOf(i) \notin pending
  /\ \A s \in Socks : RequestIdsIn(toHub[s]) \subseteq RegisteredIds
  /\ \A k \in 1..Len(handled) : handled[k].id \in RegisteredIds

\* one request settled by a message and another rejected by its timer, both
\* gone from the registry
C21_Witness ==
  \E i, j \in Invokes :
     /\ Registered(i) /\ outcome[i].via = "reply" /\ IdOf(i) \notin pending
     /\ Registered(j) /\ outcome[j].via = "timer" /\ IdOf(j) \notin pending

\* ===================================================================
\* Properties of the Issuer's message handler (IssuerSpec)
\* ===================================================================
NotARelay(data) ==
  \/ "malformed" \in DOMAIN data
  \/ Get(data, "type") # "broadcast"
  \/ "message" \notin DOMAIN data

\* C22: the handling of a delivery whose type is not "broadcast", of one
\* without a message and of a frame that does not parse leaves the pending
\* registry, the timers and every invoke's outcome as they were.
C22_NonRelayDeliveriesIgnored ==
  [][ \A s \in Socks :
        (WsMessage(s) /\ NotARelay(Head(inbox[s]))) =>
           /\ pending' = pending
           /\ timers' = timers
           /\ outcome' = outcome
           /\ settles' = settles
           /\ settledBy' = settledBy
    ]_vars

\* a request is still registered and unsettled after the Issuer handled an
\* error notice, a join acknowledgment carrying the request's id, a relay
\* without message and an unparseable frame
C22_Witness ==
  \E i \in Invokes :
     /\ Registered(i)
     /\ IdOf(i) \in pending
     /\ outcome[i].kind = "pending"
     /\ {JoinFirstNotice, JoinAck([id |-> IdOf(i)], CHANNEL), [malformed |-> TRUE],
         BroadcastEnv([type |-> "message"], "Remote", CHANNEL)} \subseteq ignored

\* ===================================================================
\* Properties of the Hub (HubSpec)
\* ===================================================================
LastChannel == Get(lastOp.raw, "channel")

LastIsSend == lastOp.op = "message" /\ Get(lastOp.raw, "type") = "message"

LastSenderWasMember ==
  /\ LastChannel \in DOMAIN lastOp.before
  /\ lastOp.ep \in lastOp.before[LastChannel]

\* C8: a send of payload p by a member of channel c gives every open member
\* of c exactly one broadcast envelope with p unmodified, tagged "You" for
\* the sender and "Remote" for the others; non-members receive nothing.
C8_MemberSendReachesMembers ==
  (LastIsSend /\ LastSenderWasMember /\ "message" \in DOMAIN lastOp.raw) =>
     \A m \in Endpoints :
        hubOut[m] = IF m \in lastOp.before[LastChannel] /\ hubState[m] = "open"
                    THEN << [type |-> "broadcast",
                             message |-> lastOp.raw.message,
                             sender |-> IF m = lastOp.ep THEN "You" ELSE "Remote",
                             channel |-> LastChannel] >>
                    ELSE <<>>

\* a member sent into a channel with another member while a third endpoint
\* was connected without being a member
C8_Witness ==
  /\ LastIsSend /\ LastSenderWasMember /\ "message" \in DOMAIN lastOp.raw
  /\ \E b \in lastOp.before[LastChannel] \ {lastOp.ep} :
        hubOut[b] # <<>> /\ hubOut[b][1].sender = "Remote"
  /\ hubOut[lastOp.ep] # <<>> /\ hubOut[lastOp.ep][1].sender = "You"
  /\ \E n \in Endpoints : hubState[n] = "open" /\ n \notin lastOp.before[LastChannel]

\* C9: a send into a channel the sender has not joined gives the sender
\* exactly one error notice and nobody else anything, leaves the registry as
\* it was and the connection open; the same endpoint can then join and send.
C9_NonMemberSendRejected ==
  /\ (LastIsSend /\ ~LastSenderWasMember) =>
        /\ Len(hubOut[lastOp.ep]) = 1
        /\ hubOut[lastOp.ep][1].type = "error"
        /\ \A m \in Endpoints \ {lastOp.ep} : hubOut[m] = <<>>
        /\ channels = lastOp.before
        /\ hubState[lastOp.ep] = "open"
  /\ (LastIsSend /\ LastSenderWasMember /\ lastOp.ep \in errNoticed) =>
        /\ Len(hubOut[lastOp.ep]) = 1
        /\ hubOut[lastOp.ep][1].type = "broadcast"

\* a send into an existing channel, with a member, that the sender never joined
C9_Witness ==
  /\ LastIsSend /\ ~LastSenderWasMember
  /\ LastChannel \in DOMAIN lastOp.before
  /\ lastOp.before[LastChannel] # {}
  /\ hubOut[lastOp.ep] # <<>>

\* C10: no channel ever contains a closed endpoint, no closed endpoint is
\* sent anything, and after a close the endpoint is in no channel while each
\* remaining open member got one peer-left notice per channel it shared.
C10_ClosedEndpointsLeaveChannels ==
  /\ \A c \in DOMAIN channels : \A m \in channels[c] : hubState[m] = "open"
  /\ \A e \in Endpoints : hubState[e] # "open" => hubOut[e] = <<>>
  /\ lastOp.op = "close" =>
        /\ \A c \in DOMAIN channels : lastOp.ep \notin channels[c]
        /\ \A m \in Endpoints \ {lastOp.ep} :
              hubState[m] = "open" =>
                 /\ Len(hubOut[m]) =
                      Cardinality({c \in DOMAIN lastOp.before :
                                     {m, lastOp.ep} \subseteq lastOp.before[c]})
                 /\ \A k \in 1..Len(hubOut[m]) : hubOut[m][k] = LeftNotice

\* an endpoint closed while it shared a channel with an open member
C10_Witness ==
  /\ lastOp.op = "close"
  /\ \E c \in DOMAIN lastOp.before :
        /\ lastOp.ep \in lastOp.before[c]
        /\ \E m \in lastOp.before[c] \ {lastOp.ep} : hubOut[m] # <<>>

LastIsJoin ==
  /\ lastOp.op = "message"
  /\ Get(lastOp.raw, "type") = "join"
  /\ Truthy(LastChannel)

MembersBefore(c) == IF c \in DOMAIN lastOp.before THEN lastOp.before[c] ELSE {}

PeerJoined(c) == [type |-> "system", message |-> [str |-> "A new user joined"], channel |-> c]

IsAckFor(env, c) ==
  /\ env.type = "system"
  /\ Get(env, "channel") = c
  /\ Get(env.message, "result") = "Connected to channel: " \o c

\* C11: after endpoint e joins a non-empty channel name c, e is a member of c
\* (c exists afterwards), e is sent a system acknowledgment for c and no
\* peer-joined notice, and every other open member of c is sent exactly one
\* peer-joined notice; nobody else is sent anything.
C11_JoinEffect ==
  LastIsJoin =>
     /\ LastChannel \in DOMAIN channels
     /\ lastOp.ep \in channels[LastChannel]
     /\ \E k \in 1..Len(hubOut[lastOp.ep]) : IsAckFor(hubOut[lastOp.ep][k], LastChannel)
     /\ \A k \in 1..Len(hubOut[lastOp.ep]) : hubOut[lastOp.ep][k] # PeerJoined(LastChannel)
     /\ \A m \in Endpoints \ {lastOp.ep} :
           hubOut[m] = IF m \in channels[LastChannel] /\ hubState[m] = "open"
                       THEN << PeerJoined(LastChannel) >>
                       ELSE <<>>

\* an endpoint joined a channel that already had another open member
C11_Witness ==
  /\ LastIsJoin
  /\ lastOp.ep \notin MembersBefore(LastChannel)
  /\ \E m \in MembersBefore(LastChannel) \ {lastOp.ep} : hubOut[m] = << PeerJoined(LastChannel) >>
  /\ hubOut[lastOp.ep] # <<>>

\* C12: a join by an endpoint that is already a member of the channel leaves
\* the registry unchanged and sends nothing to any other member.
C12_RepeatedJoinSilent ==
  (LastIsJoin /\ lastOp.ep \in MembersBefore(LastChannel)) =>
     /\ channels = lastOp.before
     /\ \A m \in Endpoints \ {lastOp.ep} : hubOut[m] = <<>>

LastIsProtocolError ==
  /\ lastOp.op = "message"
  /\ \/ ParseThrows(lastOp.raw)
     \/ LastIsSend /\ ~LastSenderWasMember
     \/ Get(lastOp.raw, "type") = "join" /\ ~Truthy(LastChannel)

\* C13: a malformed envelope, a send into a channel not joined and a join
\* without a channel name are each answered with an error notice to the
\* offending endpoint, and none of them changes the channel registry.
C13_ProtocolErrorsAnswered ==
  LastIsProtocolError =>
     /\ HasErrorNotice(hubOut[lastOp.ep])
     /\ channels = lastOp.before

\* C14: the handling of a malformed frame sends nothing, leaves the registry
\* and every connection as they were, the sender included, and every join or
\* send handled next, from any endpoint, has the effect it would have had
\* without it.
C14_MalformedDropped ==
  (lastOp.op = "message" /\ ParseThrows(lastOp.raw)) =>
     /\ hubOut = NoOut
     /\ channels = lastOp.before
     /\ hubState = lastOp.states
     /\ hubState[lastOp.ep] = "open"
     /\ \A e \in Endpoints : \A raw \in RawInputs :
           HubOnMessage(channels, hubState, e, raw)
             = HubOnMessage(lastOp.before, lastOp.states, e, raw)

\* a member of a channel that has another member sent a malformed frame
C14_Witness ==
  /\ lastOp.op = "message"
  /\ ParseThrows(lastOp.raw)
  /\ \E c \in DOMAIN channels :
        lastOp.ep \in channels[c] /\ channels[c] # {lastOp.ep}

\* C19: a join of channel c leaves the member set of every other channel as
\* it was and removes no channel; the joiner keeps its other memberships.
C19_JoinTouchesOnlyItsChannel ==
  LastIsJoin =>
     /\ DOMAIN channels = DOMAIN lastOp.before \cup {LastChannel}
     /\ \A d \in DOMAIN lastOp.before : d # LastChannel => channels[d] = lastOp.before[d]

\* an endpoint that was a member of one channel joined another one
C19_Witness ==
  /\ LastIsJoin
  /\ \E d \in DOMAIN lastOp.before :
        /\ d # LastChannel
        /\ lastOp.ep \in lastOp.before[d]
        /\ lastOp.ep \in channels[d]
        /\ lastOp.ep \in channels[LastChannel]

\* ===================================================================
\* Properties of the Executor (ExecSpec)
\* ===================================================================
RepliesFor(id) == {k \in 1..Len(posted) : Get(posted[k], "id") = id}

\* the handler of the request is suspended, or onmessage is suspended on the
\* handler's result
Unanswered(msg) == msg \in running \/ Get(due, "id") = msg.id

\* C15: for every command envelope the Executor received there is no reply
\* while its handler is suspended and exactly one afterwards, whatever the
\* order of completion; a reply has either a result or an error, never both,
\* and every reply answers a received envelope.
C15_ExactlyOneReply ==
  /\ \A k \in 1..Len(handled) :
        Cardinality(RepliesFor(handled[k].id)) = IF Unanswered(handled[k]) THEN 0 ELSE 1
  /\ \A k \in 1..Len(posted) :
        /\ ("result" \in DOMAIN posted[k]) # ("error" \in DOMAIN posted[k])
        /\ \E j \in 1..Len(handled) : handled[j].id = posted[k].id

\* two requests were suspended together and answered in reverse order
C15_Witness ==
  /\ Len(handled) >= 2
  /\ Len(posted) >= 2
  /\ posted[1].id = handled[2].id
  /\ posted[2].id = handled[1].id

\* C16: a request whose command is not a key of the handler table runs no
\* handler and is answered by one reply with its id, an error field and no
\* result field.
C16_UnknownCommandError ==
  \A k \in 1..Len(handled) :
     handled[k].command \notin HandlerTable =>
        /\ handled[k] \notin ran
        /\ Cardinality(RepliesFor(handled[k].id)) = 1
        /\ \A j \in RepliesFor(handled[k].id) :
              "error" \in DOMAIN posted[j] /\ "result" \notin DOMAIN posted[j]

====
